---- MODULE Spec2Model ----
(***************************************************************************)
(* Model of the web crawl engine in src/ingestion-worker/crawler.py.       *)
(*                                                                         *)
(* Strings are sequences over a small alphabet of symbols.  Every symbol   *)
(* stands for a fixed piece of text ("/", "guide", "faq", ".pdf", ...);    *)
(* no symbol is a prefix of another one, so startswith, rstrip('/') and    *)
(* re.search on the text coincide with the same operation on the symbol    *)
(* sequence.  A URL string is kept in its urlparse form: a record of       *)
(* scheme, netloc, path, query and fragment.                               *)
(***************************************************************************)
EXTENDS Integers, Sequences, FiniteSets, TLC

\* ------------------------------------------------------------------------
\* Bounds of the model
\* ------------------------------------------------------------------------
\* largest positive value of max_pages tried
MaxPagesBound == 2

\* longest path, in symbols, of the URL texts given to normalize_url
MaxPathLen == 4

\* longest text, in characters, given to chunk_text
MaxTextLen == 5

\* largest max_chars given to chunk_text
MaxChunkChars == 3

\* number of rows of import_jobs
MaxJobs == 2

\* most pages crawl_site hands to handle_page for one job
MaxJobPages == 2

\* ------------------------------------------------------------------------
\* Program constants
\* ------------------------------------------------------------------------
\* len(content) > 100 in the minimum-quality check
MinContentLen == 100

\* max_pages == -1 disables the page limit
Unbounded == -1

\* EMBEDDING_DIMENSION and EMBEDDING_MODEL of main.py
EMBEDDING_DIMENSION == 3072

EMBEDDING_MODEL == "text-embedding-3-large"

\* ------------------------------------------------------------------------
\* Strings
\* ------------------------------------------------------------------------
\* str.lower() on one symbol
Lower(c) ==
    CASE c = "DOCS"   -> "docs"
      [] c = "HTTPS"  -> "https"
      [] c = "SEARCH" -> "search"
      [] c = "GUIDE"  -> "guide"
      [] OTHER        -> c

LowerSeq(s) == [i \in DOMAIN s |-> Lower(s[i])]

\* str.rstrip('/')
RECURSIVE RStrip(_)
RStrip(s) ==
    IF s # <<>> /\ s[Len(s)] = "/" THEN RStrip(SubSeq(s, 1, Len(s) - 1)) ELSE s

\* str.startswith(p)
StartsWith(s, p) ==
    /\ Len(p) <= Len(s)
    /\ SubSeq(s, 1, Len(p)) = p

\* re.search of a literal pattern, anchored at the end when the pattern ends in $
MatchAt(s, p, i) == SubSeq(s, i, i + Len(p) - 1) = p

ReSearch(pat, s) ==
    IF pat.atEnd
    THEN Len(pat.lit) <= Len(s) /\ MatchAt(s, pat.lit, Len(s) - Len(pat.lit) + 1)
    ELSE \E i \in 1..(Len(s) - Len(pat.lit) + 1) : MatchAt(s, pat.lit, i)

\* ------------------------------------------------------------------------
\* URLs
\* ------------------------------------------------------------------------
Url(scheme, netloc, path, query, fragment) ==
    [scheme |-> scheme, netloc |-> netloc, path |-> path,
     query |-> query, fragment |-> fragment]

NoUrl == Url("", "", <<>>, "", "")

\* normalize_url
normalize_url(url) ==
    Url(Lower(url.scheme),
        Lower(url.netloc),
        IF url.path # <<"/">> THEN RStrip(url.path) ELSE url.path,
        url.query,
        "")

\* the skip_patterns list of _should_crawl_url
skip_patterns ==
    << [lit |-> <<"/", "search">>, atEnd |-> FALSE],
       [lit |-> <<"/", "login">>, atEnd |-> FALSE],
       [lit |-> <<"/", "logout">>, atEnd |-> FALSE],
       [lit |-> <<"/", "api", "/">>, atEnd |-> FALSE],
       [lit |-> <<"/", "download", "/">>, atEnd |-> FALSE],
       [lit |-> <<".pdf">>, atEnd |-> TRUE],
       [lit |-> <<".zip">>, atEnd |-> TRUE],
       [lit |-> <<".exe">>, atEnd |-> TRUE],
       [lit |-> <<".dmg">>, atEnd |-> TRUE],
       [lit |-> <<".jpg">>, atEnd |-> TRUE],
       [lit |-> <<".png">>, atEnd |-> TRUE],
       [lit |-> <<"/", "print", "/">>, atEnd |-> FALSE],
       [lit |-> <<"/", "share", "/">>, atEnd |-> FALSE],
       [lit |-> <<"/", "export", "/">>, atEnd |-> FALSE],
       [lit |-> <<"#">>, atEnd |-> FALSE] >>

\* _should_crawl_url with the netloc comparison left out
ShouldCrawlNoHost(url, base_domain, allowed_paths) ==
    \E parsed \in {url} :
       /\ \E p \in allowed_paths : StartsWith(parsed.path, p)
       /\ parsed.fragment = ""
       /\ \E lowered \in {LowerSeq(parsed.path)} :
             \A k \in DOMAIN skip_patterns : ~ReSearch(skip_patterns[k], lowered)

\* _should_crawl_url with the loop over skip_patterns left out
ShouldCrawlNoSkip(url, base_domain, allowed_paths) ==
    \E parsed \in {url} :
       /\ parsed.netloc = base_domain
       /\ \E p \in allowed_paths : StartsWith(parsed.path, p)
       /\ parsed.fragment = ""

\* _should_crawl_url; parsed is urlparse(url), and lowered is the path as
\* re.IGNORECASE sees it
should_crawl_url(url, base_domain, allowed_paths) ==
    \E parsed \in {url} :
       /\ parsed.netloc = base_domain
       /\ \E p \in allowed_paths : StartsWith(parsed.path, p)
       /\ parsed.fragment = ""
       /\ \E lowered \in {LowerSeq(parsed.path)} :
             \A k \in DOMAIN skip_patterns : ~ReSearch(skip_patterns[k], lowered)

\* urljoin(base, ref) for a reference given as text without scheme, query or
\* fragment: "//host/path", "/path" or a relative path
UrlJoinRef(base, ref) ==
    IF Len(ref) >= 3 /\ ref[1] = "/" /\ ref[2] = "/"
    THEN Url(base.scheme, ref[3], SubSeq(ref, 4, Len(ref)), "", "")
    ELSE IF ref = <<>>
    THEN base
    ELSE IF ref[1] = "/"
    THEN Url(base.scheme, base.netloc, ref, "", "")
    ELSE LET slashes == {i \in DOMAIN base.path : base.path[i] = "/"}
             dir == IF slashes = {} THEN <<"/">>
                    ELSE SubSeq(base.path, 1,
                                CHOOSE i \in slashes : \A j \in slashes : j <= i)
         IN  Url(base.scheme, base.netloc, dir \o ref, "", "")

\* urljoin(base, link) for an absolute link (el.href is always absolute)
UrlJoin(base, link) == link

\* ------------------------------------------------------------------------
\* URL text.  The text of a URL is a sequence of symbols in which ":", "/",
\* "?", "#" and ";" are symbols of their own and every other symbol is a
\* word of letters; urlparse and urlunparse are those of urllib.parse
\* ------------------------------------------------------------------------
Delimiters == {":", "/", "?", "#", ";"}

\* str.find(c, from): the first index of c at or after from, 0 when absent
Find(s, c, from) ==
    LET hits == {i \in from..Len(s) : s[i] = c}
    IN  IF hits = {} THEN 0 ELSE CHOOSE i \in hits : \A j \in hits : i <= j

\* str.rfind(c): the last index of c, 0 when absent
RFind(s, c) ==
    LET hits == {i \in DOMAIN s : s[i] = c}
    IN  IF hits = {} THEN 0 ELSE CHOOSE i \in hits : \A j \in hits : j <= i

\* the schemes of uses_params and uses_netloc that the symbols can spell
uses_params == {<<>>, <<"http">>, <<"https">>}
uses_netloc == {<<>>, <<"http">>, <<"https">>}

\* the one element of a set of one element
Only(S) == CHOOSE x \in S : TRUE

\* str.split(c, 1) when c is there, else the text and the empty text
SplitAt(s, c) ==
    Only({ IF i > 0
           THEN [head |-> SubSeq(s, 1, i - 1), tail |-> SubSeq(s, i + 1, Len(s))]
           ELSE [head |-> s, tail |-> <<>>] :
              i \in {Find(s, c, 1)} })

\* _splitparams
splitparams(s) ==
    Only({ IF i = 0 THEN [path |-> s, params |-> <<>>]
           ELSE [path |-> SubSeq(s, 1, i - 1),
                 params |-> SubSeq(s, i + 1, Len(s))] :
              i \in {IF Find(s, "/", 1) > 0 THEN Find(s, ";", RFind(s, "/"))
                     ELSE Find(s, ";", 1)} })

\* urlsplit, the scheme: the text up to the first ":" when it is made of
\* scheme characters only, lower-cased
SplitScheme(s) ==
    Only({ IF colon > 1 /\ \A k \in 1..(colon - 1) : s[k] \notin Delimiters
           THEN [scheme |-> LowerSeq(SubSeq(s, 1, colon - 1)),
                 rest   |-> SubSeq(s, colon + 1, Len(s))]
           ELSE [scheme |-> <<>>, rest |-> s] :
              colon \in {Find(s, ":", 1)} })

\* urlsplit, the netloc (_splitnetloc): after "//" up to the first of "/",
\* "?" and "#"
SplitNetloc(s) ==
    IF StartsWith(s, <<"/", "/">>)
    THEN Only({ [netloc |-> SubSeq(s, 3, delim - 1),
                 url    |-> SubSeq(s, delim, Len(s))] :
                   delim \in { Only({ IF ends = {} THEN Len(s) + 1
                                      ELSE CHOOSE i \in ends : \A j \in ends : i <= j :
                                         ends \in {{i \in 3..Len(s) :
                                                      s[i] \in {"/", "?", "#"}}} }) } })
    ELSE [netloc |-> <<>>, url |-> s]

\* urlparse: scheme, netloc, then the fragment, the query and the params
\* are split off what is left
urlparse(s) ==
    LET s1 == { SplitScheme(s) }
        s2 == { [scheme |-> a.scheme, nl |-> SplitNetloc(a.rest)] : a \in s1 }
        s3 == { [scheme |-> b.scheme, netloc |-> b.nl.netloc,
                 fr |-> SplitAt(b.nl.url, "#")] : b \in s2 }
        s4 == { [scheme |-> c.scheme, netloc |-> c.netloc,
                 fragment |-> c.fr.tail,
                 qu |-> SplitAt(c.fr.head, "?")] : c \in s3 }
        s5 == { [scheme |-> d.scheme, netloc |-> d.netloc,
                 fragment |-> d.fragment, query |-> d.qu.tail,
                 pp |-> IF d.scheme \in uses_params /\ Find(d.qu.head, ";", 1) > 0
                        THEN splitparams(d.qu.head)
                        ELSE [path |-> d.qu.head, params |-> <<>>]] : d \in s4 }
    IN  Only({ [scheme |-> e.scheme, netloc |-> e.netloc, path |-> e.pp.path,
                params |-> e.pp.params, query |-> e.query,
                fragment |-> e.fragment] : e \in s5 })

\* urlunsplit
urlunsplit(scheme, netloc, url, query, fragment) ==
    LET u1 == { IF \/ netloc # <<>>
                   \/ /\ scheme # <<>>
                      /\ scheme \in uses_netloc
                      /\ ~StartsWith(url, <<"/", "/">>)
                THEN <<"/", "/">> \o netloc
                     \o (IF url # <<>> /\ url[1] # "/" THEN <<"/">> ELSE <<>>)
                     \o url
                ELSE url }
        u2 == { IF scheme # <<>> THEN scheme \o <<":">> \o x ELSE x : x \in u1 }
        u3 == { IF query # <<>> THEN x \o <<"?">> \o query ELSE x : x \in u2 }
    IN  Only({ IF fragment # <<>> THEN x \o <<"#">> \o fragment ELSE x :
                  x \in u3 })

\* urlunparse
urlunparse(c) ==
    Only({ urlunsplit(c.scheme, c.netloc, url, c.query, c.fragment) :
              url \in {IF c.params # <<>> THEN c.path \o <<";">> \o c.params
                       ELSE c.path} })

\* normalize_url on the text of a URL
normalize_url_text(s) ==
    Only({ Only({ urlunparse(c) :
                    c \in {[scheme   |-> LowerSeq(parsed.scheme),
                            netloc   |-> LowerSeq(parsed.netloc),
                            path     |-> IF parsed.path # <<"/">>
                                         THEN RStrip(parsed.path)
                                         ELSE parsed.path,
                            params   |-> parsed.params,
                            query    |-> parsed.query,
                            fragment |-> <<>>]} }) :
              parsed \in {urlparse(s)} })

\* ------------------------------------------------------------------------
\* The site being crawled
\* ------------------------------------------------------------------------
Doc(path) == Url("https", "docs", path, "", "")

Guide     == Doc(<<"/", "guide">>)
GuideFaq  == Doc(<<"/", "guide", "/", "faq">>)
GuideTips == Doc(<<"/", "guide", "/", "tips">>)

\* a[href] targets of the page served for a URL, in document order
LinksOf(url) ==
    CASE url = Guide ->
           << Doc(<<"/", "guide", "/", "faq", "/">>),
              Url("https", "docs", <<"/", "guide">>, "", "top"),
              Url("https", "other", <<"/", "guide">>, "", ""),
              Doc(<<"/", "guide", "/", "SEARCH">>),
              Doc(<<"/", "blog">>),
              GuideTips >>
      [] url = GuideFaq ->
           << Guide, GuideTips, Doc(<<"/", "guide", "/", "manual", ".pdf">>) >>
      [] url = GuideTips ->
           << Doc(<<"/", "guide", "/">>), GuideFaq >>
      [] OTHER -> << Guide >>

\* what the content extractor returns for a rendered page: the title and the
\* text, the text given by its length and by whether it holds the marker
\* "JavaScript has been disabled"
ContentData(title, len, js) == [title |-> title, len |-> len, js |-> js]

Pages ==
    { ContentData("", 0, FALSE),
      ContentData("Guide", 100, FALSE),
      ContentData("Guide", 101, FALSE),
      ContentData("", 150, TRUE) }

NoContent == ContentData("", 0, FALSE)

\* ------------------------------------------------------------------------
\* Inputs of crawl_site
\* ------------------------------------------------------------------------
StartUrls ==
    { Guide,
      Url("https", "docs", <<"/", "guide", "/">>, "", ""),
      Url("https", "DOCS", <<"/", "guide">>, "", "") }

AdditionalPaths ==
    { <<>>,
      << <<"/", "guide", "/", "faq">> >>,
      << <<"/", "guide", "/">>, <<"tips">>, <<"/", "/", "other", "/", "x">>,
         <<"/", "guide", "/", "faq", "/">> >> }

MaxPagesChoices == {Unbounded} \cup (1..MaxPagesBound)

\* ------------------------------------------------------------------------
\* State
\* ------------------------------------------------------------------------
VARIABLES
    start_url,            \* arguments of crawl_site
    additional_paths,
    max_pages,
    has_on_progress,      \* on_progress is not None
    has_on_page,          \* on_page is not None
    allowed_domain,
    allowed_prefixes_set,
    queue,
    visited,
    scraped_data,
    browser,              \* "none" (None), "live", or "dead" (not is_connected())
    pc,                   \* position of crawl_site
    normalized_url,
    context,              \* "none" (None), "open" or "closed"
    content_data,
    page_payload,         \* <<>> while the local is unbound, else <<record>>
    new_links_found,
    returned,             \* <<>> until crawl_site returns, then <<result>>
    \* observations of the collaborators
    initial_ok,           \* the connect of line 169 succeeded
    pops,                 \* number of queue.pop(0) calls
    fetched,              \* arguments of page.goto, in call order
    progressed,           \* arguments of on_progress, in call order
    delivered,            \* calls of on_page, in call order
    conn_skipped,         \* URLs skipped at line 203
    goto_failed,          \* URLs whose page.goto raised
    rejected,             \* URLs whose content failed the check of line 217
    last_error,           \* what ended the try block of the current iteration
    enqueued,             \* every URL ever placed in the queue
    links_done,           \* URLs whose links were enumerated (line 228)
    paced_pop,            \* asyncio.sleep(1) has run since the last pop
    progress_raised,      \* on_progress raised for the URL being processed
    open_contexts,        \* browsing contexts created and not yet closed
    paced_goto,           \* asyncio.sleep(1) has run since the last page.goto
    \* calls of the pure functions normalize_url and chunk_text
    arg_url,              \* <<>> or <<text of a URL>>
    res_once,             \* <<>> or <<normalize_url(arg_url)>>
    res_twice,            \* <<>> or <<normalize_url(normalize_url(arg_url))>>
    arg_text,             \* <<>> or <<text given to chunk_text>>
    arg_max_chars,
    arg_overlap,
    res_chunks,           \* <<>> or <<chunk_text(arg_text, ...)>>
    \* the ingestion worker of main.py and its import_jobs table
    import_jobs,          \* rows of import_jobs: status and source, by id
    db_dim,               \* db.get_embedding_dimension(conn)
    loops,                \* each poll_loop: position, job row, pages_seen
    ran,                  \* per job, the poll_loops that ran it past line 85
    page_errors           \* jobs for which handle_page raised

inputs == <<start_url, additional_paths, max_pages, has_on_progress, has_on_page>>
scope  == <<allowed_domain, allowed_prefixes_set>>
observed == <<initial_ok, pops, fetched, progressed, delivered, conn_skipped,
             goto_failed, rejected>>
traced == <<enqueued, links_done, paced_pop, progress_raised, open_contexts,
            paced_goto>>
pure   == <<arg_url, res_once, res_twice, arg_text, arg_max_chars, arg_overlap,
            res_chunks>>
ingest == <<import_jobs, db_dim, loops, ran, page_errors>>

vars == <<start_url, additional_paths, max_pages, has_on_progress, has_on_page,
          allowed_domain, allowed_prefixes_set, queue, visited, scraped_data,
          browser, pc, normalized_url, context, content_data, page_payload,
          new_links_found, returned, initial_ok, pops, fetched, progressed,
          delivered, conn_skipped, goto_failed, rejected, last_error,
          enqueued, links_done, paced_pop, progress_raised, open_contexts,
          paced_goto,
          arg_url, res_once, res_twice, arg_text, arg_max_chars, arg_overlap,
          res_chunks, import_jobs, db_dim, loops, ran, page_errors>>

Range(s) == {s[i] : i \in DOMAIN s}

\* ------------------------------------------------------------------------
\* Set-up of crawl_site (lines 130-148)
\* ------------------------------------------------------------------------
AllowedPrefixes(start, additional) ==
    LET stripped  == RStrip(start.path)
        base_path == IF StartsWith(stripped, <<"/">>) THEN stripped
                     ELSE <<"/">> \o stripped
        cands     == {base_path} \cup Range(additional)
        kept      == {p \in cands : p # <<>> /\ StartsWith(p, <<"/">>)}
    IN  {RStrip(p) : p \in kept}
        \cup (IF start.path # <<>> /\ start.path # <<"/">>
              THEN {RStrip(start.path)} ELSE {})

SeedQueue(start, additional) ==
    LET joined == [i \in DOMAIN additional |-> UrlJoinRef(start, additional[i])]
        SameHost(u) == u.netloc = start.netloc
    IN  <<start>> \o SelectSeq(joined, SameHost)

\* no poll_loop is running
NoIngest ==
    /\ import_jobs = <<>>
    /\ db_dim = 0
    /\ loops = <<>>
    /\ ran = <<>>
    /\ page_errors = {}

\* neither normalize_url nor chunk_text is being called on its own
NoPureCall ==
    /\ arg_url = <<>>
    /\ res_once = <<>>
    /\ res_twice = <<>>
    /\ arg_text = <<>>
    /\ arg_max_chars = 0
    /\ arg_overlap = 0
    /\ res_chunks = <<>>

Init ==
    /\ start_url \in StartUrls
    /\ additional_paths \in AdditionalPaths
    /\ max_pages \in MaxPagesChoices
    /\ has_on_progress \in BOOLEAN
    /\ has_on_page \in BOOLEAN
    /\ allowed_domain = start_url.netloc
    /\ allowed_prefixes_set = AllowedPrefixes(start_url, additional_paths)
    /\ queue = SeedQueue(start_url, additional_paths)
    /\ visited = {}
    /\ scraped_data = <<>>
    /\ browser = "none"
    /\ pc = "connect0"
    /\ normalized_url = NoUrl
    /\ context = "none"
    /\ content_data = NoContent
    /\ page_payload = <<>>
    /\ new_links_found = 0
    /\ returned = <<>>
    /\ initial_ok = FALSE
    /\ pops = 0
    /\ fetched = <<>>
    /\ progressed = <<>>
    /\ delivered = <<>>
    /\ conn_skipped = {}
    /\ goto_failed = {}
    /\ rejected = {}
    /\ last_error = "none"
    /\ enqueued = Range(queue)
    /\ links_done = {}
    /\ paced_pop = FALSE
    /\ progress_raised = FALSE
    /\ open_contexts = 0
    /\ paced_goto = FALSE
    /\ NoPureCall
    /\ NoIngest

\* ------------------------------------------------------------------------
\* Decisions of the loop
\* ------------------------------------------------------------------------
\* the loop condition with the page cap left out
LoopCondNoCap(q, n, max) == q # <<>>

\* the loop condition with the -1 test left out
LoopCondNoSentinel(q, n, max) == q # <<>> /\ n < max

\* while queue and (max_pages == -1 or len(scraped_data) < max_pages)
LoopCond(q, n, max) == q # <<>> /\ (max = Unbounded \/ n < max)

\* the visited test that never skips
NeverVisited(url, vis) == FALSE

\* if normalized_url in visited: continue
AlreadyVisited(url, vis) == url \in vis

\* the quality check with >= in place of > and no marker test
PassesCheckLoose(c) == c.len # 0 /\ c.len >= MinContentLen

\* content and "JavaScript has been disabled" not in content and len(content) > 100
PassesCheck(c) == c.len # 0 /\ ~c.js /\ c.len > MinContentLen

\* the record built at lines 218-222
PagePayload(url, c) ==
    [url |-> url, title |-> c.title, content |-> [len |-> c.len, js |-> c.js]]

\* handlers that let everything but a PlaywrightError leave crawl_site
HandlerPlaywrightOnly(kind, b) ==
    [browser |-> IF kind = "crash" THEN "none" ELSE b,
     pc      |-> IF kind \in {"crash", "playwright"} THEN "finally"
                 ELSE "finally_raise"]

\* the except clause of lines 255-256 with a raise after the warning: a
\* PlaywrightError without the closed-target text leaves crawl_site
HandlerTimeoutFatal(kind, b) ==
    [browser |-> IF kind = "crash" THEN "none" ELSE b,
     pc      |-> IF kind = "playwright" THEN "finally_raise" ELSE "finally"]

\* the except clauses with browser = None of line 254 left out
HandlerKeepBrowser(kind, b) ==
    [browser |-> b,
     pc      |-> "finally"]

\* the except clauses of lines 251-258: where control goes and what becomes
\* of the browser handle when the try block raises.  kind is "crash" (a
\* PlaywrightError with the closed-target text), "playwright" (any other
\* PlaywrightError) or the name of another exception
Handler(kind, b) ==
    [browser |-> IF kind = "crash" THEN "none" ELSE b,
     pc      |-> "finally"]

\* the body of the loop over links with queue.insert(0, ...) in place of
\* queue.append
EnqueueLinkFront(base, link, q, vis, dom, prefixes) ==
    CHOOSE after \in
       { IF /\ normalized_link \notin vis
            /\ normalized_link \notin Range(q)
            /\ should_crawl_url(normalized_link, dom, prefixes)
         THEN <<normalized_link>> \o q
         ELSE q :
            normalized_link \in {normalize_url(UrlJoin(base, link))} } : TRUE

\* lines 231-235, the body of the loop over links: the queue after one link
\* has been looked at
EnqueueLink(base, link, q, vis, dom, prefixes) ==
    CHOOSE after \in
       { IF /\ normalized_link \notin vis
            /\ normalized_link \notin Range(q)
            /\ should_crawl_url(normalized_link, dom, prefixes)
         THEN Append(q, normalized_link)
         ELSE q :
            normalized_link \in {normalize_url(UrlJoin(base, link))} } : TRUE

\* the loop over links with a break after the first link
EnqueueLinksFirstOnly(base, links, i, q, vis, dom, prefixes) ==
    IF i = 0 THEN q
    ELSE EnqueueLink(base, links[1], q, vis, dom, prefixes)

\* lines 230-235, the loop over links: the queue after the first i links
\* have been looked at, starting from queue q (the queue after i - 1 links is
\* bound once, as the loop variable is)
RECURSIVE EnqueueLinks(_, _, _, _, _, _, _)
EnqueueLinks(base, links, i, q, vis, dom, prefixes) ==
    IF i = 0 THEN q
    ELSE CHOOSE after \in
            { EnqueueLink(base, links[i], sofar, vis, dom, prefixes) :
                 sofar \in {EnqueueLinks(base, links, i - 1, q, vis, dom,
                                         prefixes)} } : TRUE

\* ------------------------------------------------------------------------
\* Steps of crawl_site
\* ------------------------------------------------------------------------
\* an exception leaves the try block
Raise(kind) ==
    /\ browser' = Handler(kind, browser).browser
    /\ pc' = Handler(kind, browser).pc
    /\ last_error' = kind

\* lines 169-172
InitialConnect ==
    /\ pc = "connect0"
    /\ \/ /\ browser' = "live"
          /\ initial_ok' = TRUE
          /\ pc' = "loop"
          /\ UNCHANGED returned
       \/ /\ browser' = "none"
          /\ pc' = "done"
          /\ returned' = << <<>> >>
          /\ UNCHANGED initial_ok
    /\ UNCHANGED <<inputs, scope, pure, ingest, traced,
                   queue, visited, scraped_data, normalized_url,
                   context, content_data, page_payload, new_links_found, pops,
                   fetched, progressed, delivered, conn_skipped, last_error,
                   goto_failed, rejected>>

\* lines 174, 267-268: the loop condition is false
LoopExit ==
    /\ pc = "loop"
    /\ ~LoopCond(queue, Len(scraped_data), max_pages)
    /\ pc' = "done"
    /\ returned' = <<scraped_data>>
    /\ UNCHANGED <<inputs, scope, pure, ingest, traced,
                   queue, visited, scraped_data, browser,
                   normalized_url, context, content_data, page_payload,
                   new_links_found, observed, last_error>>

\* lines 175-178: pop an entry whose normalized form was seen already
PopVisited ==
    /\ pc = "loop"
    /\ LoopCond(queue, Len(scraped_data), max_pages)
    /\ AlreadyVisited(normalize_url(Head(queue)), visited)
    /\ queue' = Tail(queue)
    /\ normalized_url' = normalize_url(Head(queue))
    /\ pops' = pops + 1
    /\ last_error' = "none"
    /\ paced_pop' = FALSE
    /\ progress_raised' = FALSE
    /\ UNCHANGED <<inputs, scope, pure, ingest, paced_goto, open_contexts, enqueued, links_done,
                   visited, scraped_data, browser, pc, context,
                   content_data, page_payload, new_links_found, returned,
                   initial_ok, fetched, progressed, delivered, conn_skipped,
                   goto_failed, rejected>>

\* the pop of an entry that the scope filter rejects, with on_progress
\* called before the scope filter
PopFilteredAfterProgress ==
    /\ pc = "loop"
    /\ LoopCond(queue, Len(scraped_data), max_pages)
    /\ ~AlreadyVisited(normalize_url(Head(queue)), visited)
    /\ ~should_crawl_url(normalize_url(Head(queue)), allowed_domain,
                         allowed_prefixes_set)
    /\ queue' = Tail(queue)
    /\ normalized_url' = normalize_url(Head(queue))
    /\ visited' = visited \cup {normalize_url(Head(queue))}
    /\ progressed' = IF has_on_progress
                     THEN Append(progressed, normalize_url(Head(queue)))
                     ELSE progressed
    /\ pops' = pops + 1
    /\ last_error' = "none"
    /\ paced_pop' = FALSE
    /\ progress_raised' = FALSE
    /\ UNCHANGED <<inputs, scope, pure, ingest, paced_goto, open_contexts, enqueued,
                   links_done, scraped_data, browser, pc, context,
                   content_data, page_payload, new_links_found, returned,
                   initial_ok, fetched, delivered, conn_skipped,
                   goto_failed, rejected>>

\* lines 175-183: pop an entry that the scope filter rejects
PopFiltered ==
    /\ pc = "loop"
    /\ LoopCond(queue, Len(scraped_data), max_pages)
    /\ ~AlreadyVisited(normalize_url(Head(queue)), visited)
    /\ ~should_crawl_url(normalize_url(Head(queue)), allowed_domain,
                         allowed_prefixes_set)
    /\ queue' = Tail(queue)
    /\ normalized_url' = normalize_url(Head(queue))
    /\ visited' = visited \cup {normalize_url(Head(queue))}
    /\ pops' = pops + 1
    /\ last_error' = "none"
    /\ paced_pop' = FALSE
    /\ progress_raised' = FALSE
    /\ UNCHANGED <<inputs, scope, pure, ingest, paced_goto, open_contexts, enqueued, links_done,
                   scraped_data, browser, pc, context,
                   content_data, page_payload, new_links_found, returned,
                   initial_ok, fetched, progressed, delivered, conn_skipped,
                   goto_failed, rejected>>

\* the pop of an entry to be crawled with visited.add left out
PopUrlUnmarked ==
    /\ pc = "loop"
    /\ LoopCond(queue, Len(scraped_data), max_pages)
    /\ ~AlreadyVisited(normalize_url(Head(queue)), visited)
    /\ should_crawl_url(normalize_url(Head(queue)), allowed_domain,
                        allowed_prefixes_set)
    /\ queue' = Tail(queue)
    /\ normalized_url' = normalize_url(Head(queue))
    /\ pops' = pops + 1
    /\ last_error' = "none"
    /\ paced_pop' = FALSE
    /\ progress_raised' = FALSE
    /\ pc' = "progress"
    /\ UNCHANGED <<inputs, scope, pure, ingest, paced_goto, open_contexts, enqueued, links_done,
                   visited, scraped_data, browser, context,
                   content_data, page_payload, new_links_found, returned,
                   initial_ok, fetched, progressed, delivered, conn_skipped,
                   goto_failed, rejected>>

\* lines 175-183: pop an entry that is to be crawled
PopUrl ==
    /\ pc = "loop"
    /\ LoopCond(queue, Len(scraped_data), max_pages)
    /\ ~AlreadyVisited(normalize_url(Head(queue)), visited)
    /\ should_crawl_url(normalize_url(Head(queue)), allowed_domain,
                        allowed_prefixes_set)
    /\ queue' = Tail(queue)
    /\ normalized_url' = normalize_url(Head(queue))
    /\ visited' = visited \cup {normalize_url(Head(queue))}
    /\ pops' = pops + 1
    /\ last_error' = "none"
    /\ paced_pop' = FALSE
    /\ progress_raised' = FALSE
    /\ pc' = "progress"
    /\ UNCHANGED <<inputs, scope, pure, ingest, paced_goto, open_contexts, enqueued, links_done,
                   scraped_data, browser, context,
                   content_data, page_payload, new_links_found, returned,
                   initial_ok, fetched, progressed, delivered, conn_skipped,
                   goto_failed, rejected>>

\* on_progress called without the try of lines 186-189: what it raises
\* leaves crawl_site
OnProgressUnguarded ==
    /\ pc = "progress"
    /\ IF has_on_progress
       THEN /\ progressed' = Append(progressed, normalized_url)
            /\ progress_raised' \in BOOLEAN
       ELSE UNCHANGED <<progressed, progress_raised>>
    /\ context' = "none"
    /\ pc' = IF progress_raised' THEN "raised" ELSE "connect"
    /\ UNCHANGED <<inputs, scope, pure, ingest, paced_goto, open_contexts, enqueued,
                   links_done, paced_pop, queue, visited, scraped_data,
                   browser, normalized_url, content_data, page_payload,
                   new_links_found, returned, initial_ok, pops, fetched,
                   delivered, conn_skipped, goto_failed, rejected, last_error>>

\* lines 185-194: on_progress returns or raises; except Exception: pass
\* swallows what it raises
OnProgress ==
    /\ pc = "progress"
    /\ IF has_on_progress
       THEN /\ progressed' = Append(progressed, normalized_url)
            /\ progress_raised' \in BOOLEAN
       ELSE UNCHANGED <<progressed, progress_raised>>
    /\ context' = "none"
    /\ pc' = "connect"
    /\ UNCHANGED <<inputs, scope, pure, ingest, paced_goto, open_contexts, enqueued, links_done, paced_pop,
                   queue, visited, scraped_data, browser,
                   normalized_url, content_data, page_payload, new_links_found,
                   returned, initial_ok, pops, fetched, delivered, conn_skipped,
                   goto_failed, rejected, last_error>>

\* line 196: get_or_connect_browser (lines 155-167)
Connect ==
    /\ pc = "connect"
    /\ \/ /\ browser = "live"
          /\ pc' = "new_context"
          /\ UNCHANGED browser
       \/ /\ browser # "live"
          /\ browser' = "live"
          /\ pc' = "new_context"
       \/ /\ browser # "live"
          /\ browser' = "none"
          /\ pc' = "backoff"
    /\ UNCHANGED <<inputs, scope, pure, ingest, traced,
                   queue, visited, scraped_data, normalized_url,
                   context, content_data, page_payload, new_links_found,
                   returned, observed, last_error>>

\* lines 197-203 with a return in place of the continue
ReconnectAbort ==
    /\ pc = "backoff"
    /\ \/ /\ browser' = "live"
          /\ pc' = "new_context"
          /\ UNCHANGED <<conn_skipped, returned>>
       \/ /\ browser' = "none"
          /\ pc' = "done"
          /\ returned' = <<scraped_data>>
          /\ conn_skipped' = conn_skipped \cup {normalized_url}
    /\ UNCHANGED <<inputs, scope, pure, ingest, traced,
                   queue, visited, scraped_data, normalized_url,
                   context, content_data, page_payload, new_links_found,
                   initial_ok, pops, fetched, progressed, delivered,
                   last_error, goto_failed, rejected>>

\* lines 197-203 with the continue of line 203 left out: after the second
\* failed connect the iteration goes on to line 205 without a browser
ReconnectNoSkip ==
    /\ pc = "backoff"
    /\ \/ /\ browser' = "live"
          /\ pc' = "new_context"
       \/ /\ browser' = "none"
          /\ pc' = "new_context"
    /\ UNCHANGED <<inputs, scope, pure, ingest, traced,
                   queue, visited, scraped_data, normalized_url,
                   context, content_data, page_payload, new_links_found,
                   returned, observed, last_error>>

\* lines 197-203: wait 15 s, call get_or_connect_browser again, and skip the
\* URL when that fails too (the continue leaves through the finally clause
\* with context None)
Reconnect ==
    /\ pc = "backoff"
    /\ \/ /\ browser' = "live"
          /\ pc' = "new_context"
          /\ UNCHANGED <<conn_skipped, progress_raised>>
       \/ /\ browser' = "none"
          /\ pc' = "loop"
          /\ progress_raised' = FALSE
          /\ conn_skipped' = conn_skipped \cup {normalized_url}
    /\ UNCHANGED <<inputs, scope, pure, ingest, enqueued, links_done, paced_pop,
                   open_contexts, paced_goto,
                   queue, visited, scraped_data, normalized_url,
                   context, content_data, page_payload, new_links_found,
                   returned, initial_ok, pops, fetched, progressed, delivered,
                   last_error, goto_failed, rejected>>

\* errors a browser operation can raise: a PlaywrightError with the
\* closed-target text, or another PlaywrightError (timeout, network error)
PageOpErrors == {"crash", "playwright"}

\* lines 205-209: new_context, new_page, route
NewContext ==
    /\ pc = "new_context"
    /\ \/ /\ browser = "live"
          /\ context' = "open"
          /\ open_contexts' = open_contexts + 1
          /\ pc' = "goto"
          /\ UNCHANGED <<browser, last_error>>
       \/ \E kind \in PageOpErrors, ctx \in {"none", "open"} :
             /\ context' = ctx
             /\ open_contexts' = IF ctx = "open" THEN open_contexts + 1
                                 ELSE open_contexts
             /\ Raise(kind)
    /\ UNCHANGED <<inputs, scope, pure, ingest, paced_goto, enqueued, links_done, paced_pop,
                   progress_raised,
                   queue, visited, scraped_data, normalized_url,
                   content_data, page_payload, new_links_found, returned,
                   observed>>

\* line 210: page.goto
Goto ==
    /\ pc = "goto"
    /\ fetched' = Append(fetched, normalized_url)
    /\ paced_goto' = FALSE
    /\ \/ /\ browser = "live"
          /\ pc' = "extract"
          /\ UNCHANGED <<browser, last_error, goto_failed>>
       \/ /\ \E kind \in PageOpErrors : Raise(kind)
          /\ goto_failed' = goto_failed \cup {normalized_url}
    /\ UNCHANGED <<inputs, scope, pure, ingest, open_contexts, enqueued, links_done, paced_pop, progress_raised,
                   queue, visited, scraped_data, normalized_url,
                   context, content_data, page_payload, new_links_found,
                   returned, initial_ok, pops, progressed, delivered,
                   conn_skipped,
                   rejected>>

\* lines 212-226 with the link enumeration of lines 228-236 moved into the
\* accepting branch of line 217: a rejected page goes straight to line 237
ExtractLinksIfAccepted ==
    /\ pc = "extract"
    /\ \/ /\ browser = "live"
          /\ \E c \in Pages :
                /\ content_data' = c
                /\ IF PassesCheck(c)
                   THEN /\ page_payload' = <<PagePayload(normalized_url, c)>>
                        /\ scraped_data' =
                              Append(scraped_data, PagePayload(normalized_url, c))
                        /\ pc' = "links"
                   ELSE /\ UNCHANGED <<page_payload, scraped_data>>
                        /\ pc' = "on_page"
                /\ rejected' = IF PassesCheck(c) THEN rejected
                               ELSE rejected \cup {normalized_url}
          /\ UNCHANGED <<browser, last_error>>
       \/ /\ \E kind \in PageOpErrors \cup {"other"} : Raise(kind)
          /\ UNCHANGED <<content_data, page_payload, scraped_data, rejected>>
    /\ UNCHANGED <<inputs, scope, pure, ingest, traced,
                   queue, visited, normalized_url, context,
                   new_links_found, returned, initial_ok, pops, fetched,
                   progressed, delivered, conn_skipped, goto_failed>>

\* lines 212-226: page.content, extraction, the minimum-quality check
Extract ==
    /\ pc = "extract"
    /\ \/ /\ browser = "live"
          /\ \E c \in Pages :
                /\ content_data' = c
                /\ IF PassesCheck(c)
                   THEN /\ page_payload' = <<PagePayload(normalized_url, c)>>
                        /\ scraped_data' =
                              Append(scraped_data, PagePayload(normalized_url, c))
                   ELSE UNCHANGED <<page_payload, scraped_data>>
                /\ rejected' = IF PassesCheck(c) THEN rejected
                               ELSE rejected \cup {normalized_url}
          /\ pc' = "links"
          /\ UNCHANGED <<browser, last_error>>
       \/ /\ \E kind \in PageOpErrors \cup {"other"} : Raise(kind)
          /\ UNCHANGED <<content_data, page_payload, scraped_data, rejected>>
    /\ UNCHANGED <<inputs, scope, pure, ingest, traced,
                   queue, visited, normalized_url, context,
                   new_links_found, returned, initial_ok, pops, fetched,
                   progressed, delivered, conn_skipped, goto_failed>>

\* lines 228-236: enumerate the links and enqueue the new ones
DiscoverLinks ==
    /\ pc = "links"
    /\ \/ /\ browser = "live"
          /\ queue' = EnqueueLinks(normalized_url, LinksOf(normalized_url),
                                   Len(LinksOf(normalized_url)), queue,
                                   visited, allowed_domain,
                                   allowed_prefixes_set)
          /\ new_links_found' = Len(queue') - Len(queue)
          /\ enqueued' = enqueued \cup Range(queue')
          /\ links_done' = links_done \cup {normalized_url}
          /\ pc' = "on_page"
          /\ UNCHANGED <<browser, last_error>>
       \/ /\ \E kind \in PageOpErrors : Raise(kind)
          /\ UNCHANGED <<queue, new_links_found, enqueued, links_done>>
    /\ UNCHANGED <<inputs, scope, pure, ingest, paced_goto, open_contexts, paced_pop, progress_raised,
                   visited, scraped_data, normalized_url,
                   context, content_data, page_payload, returned, observed>>

\* lines 237-249 with the record taken back when the callback raises:
\* scraped_data.pop() before the raise of line 249
OnPageRollback ==
    /\ pc = "on_page"
    /\ IF has_on_page /\ content_data.len # 0
       THEN IF page_payload = <<>>
            THEN /\ Raise("unbound")
                 /\ UNCHANGED <<delivered, scraped_data>>
            ELSE /\ delivered' = Append(delivered,
                                        [during  |-> normalized_url,
                                         content |-> content_data,
                                         record  |-> page_payload[1]])
                 /\ \/ /\ pc' = "finally"
                       /\ UNCHANGED <<browser, last_error, scraped_data>>
                    \/ /\ Raise("on_page")
                       /\ scraped_data' =
                             SubSeq(scraped_data, 1, Len(scraped_data) - 1)
       ELSE /\ pc' = "finally"
            /\ UNCHANGED <<delivered, browser, last_error, scraped_data>>
    /\ UNCHANGED <<inputs, scope, pure, ingest, traced,
                   queue, visited, normalized_url,
                   context, content_data, page_payload, new_links_found,
                   returned, initial_ok, pops, fetched, progressed,
                   conn_skipped,
                   goto_failed, rejected>>

\* lines 237-249: on_page; reading page_payload while it is unbound raises
\* UnboundLocalError before the callback is entered
OnPage ==
    /\ pc = "on_page"
    /\ IF has_on_page /\ content_data.len # 0
       THEN IF page_payload = <<>>
            THEN /\ Raise("unbound")
                 /\ UNCHANGED delivered
            ELSE /\ delivered' = Append(delivered,
                                        [during  |-> normalized_url,
                                         content |-> content_data,
                                         record  |-> page_payload[1]])
                 /\ \/ /\ pc' = "finally"
                       /\ UNCHANGED <<browser, last_error>>
                    \/ Raise("on_page")
       ELSE /\ pc' = "finally"
            /\ UNCHANGED <<delivered, browser, last_error>>
    /\ UNCHANGED <<inputs, scope, pure, ingest, traced,
                   queue, visited, scraped_data, normalized_url,
                   context, content_data, page_payload, new_links_found,
                   returned, initial_ok, pops, fetched, progressed,
                   conn_skipped,
                   goto_failed, rejected>>

\* the finally clause with asyncio.sleep(1) moved to the end of the try
\* block: no delay after an iteration that raised
CloseContextSleepInTry ==
    /\ pc \in {"finally", "finally_raise"}
    /\ context' = IF context = "open" THEN "closed" ELSE context
    /\ open_contexts' = IF context = "open" THEN open_contexts - 1
                        ELSE open_contexts
    /\ pc' = IF pc = "finally_raise" THEN "raised"
             ELSE IF last_error = "none" THEN "pace" ELSE "loop"
    /\ UNCHANGED <<inputs, scope, pure, ingest, paced_goto, enqueued, links_done,
                   paced_pop, queue, visited, scraped_data,
                   browser, normalized_url, content_data, page_payload,
                   new_links_found, returned, observed, last_error>>
    /\ progress_raised' = FALSE

\* context.close() at the end of the try block in place of the finally
\* clause: a context is closed only when nothing was raised
CloseContextOnSuccess ==
    /\ pc \in {"finally", "finally_raise"}
    /\ context' = IF context = "open" /\ last_error = "none" THEN "closed"
                  ELSE context
    /\ open_contexts' = IF context = "open" /\ last_error = "none"
                        THEN open_contexts - 1 ELSE open_contexts
    /\ pc' = IF pc = "finally" THEN "pace" ELSE "raised"
    /\ UNCHANGED <<inputs, scope, pure, ingest, paced_goto, enqueued, links_done, paced_pop,
                   queue, visited, scraped_data, browser,
                   normalized_url, content_data, page_payload, new_links_found,
                   returned, observed, last_error>>
    /\ progress_raised' = FALSE

\* lines 259-264: the finally clause; an exception of context.close() is
\* swallowed, and the context is gone either way
CloseContext ==
    /\ pc \in {"finally", "finally_raise"}
    /\ context' = IF context = "open" THEN "closed" ELSE context
    /\ open_contexts' = IF context = "open" THEN open_contexts - 1
                        ELSE open_contexts
    /\ pc' = IF pc = "finally" THEN "pace" ELSE "raised"
    /\ UNCHANGED <<inputs, scope, pure, ingest, paced_goto, enqueued, links_done, paced_pop,
                   queue, visited, scraped_data, browser,
                   normalized_url, content_data, page_payload, new_links_found,
                   returned, observed, last_error>>
    /\ progress_raised' = FALSE

\* line 265: the pacing delay
Pace ==
    /\ pc = "pace"
    /\ pc' = "loop"
    /\ paced_pop' = TRUE
    /\ paced_goto' = TRUE
    /\ UNCHANGED <<inputs, scope, pure, ingest, open_contexts, enqueued, links_done, progress_raised,
                   queue, visited, scraped_data, browser,
                   normalized_url, context, content_data, page_payload,
                   new_links_found, returned, observed, last_error>>

\* the browser service goes away while crawl_site runs (the "disconnected"
\* event of line 162): is_connected() turns false
Disconnect ==
    /\ pc \notin {"connect0", "done", "raised"}
    /\ browser = "live"
    /\ browser' = "dead"
    /\ UNCHANGED <<inputs, scope, pure, ingest, traced,
                   queue, visited, scraped_data, pc,
                   normalized_url, context, content_data, page_payload,
                   new_links_found, returned, observed, last_error>>

Step ==
    \/ InitialConnect
    \/ LoopExit
    \/ PopVisited
    \/ PopFiltered
    \/ PopUrl
    \/ OnProgress
    \/ Connect
    \/ Reconnect
    \/ NewContext
    \/ Goto
    \/ Extract
    \/ DiscoverLinks
    \/ OnPage
    \/ CloseContext
    \/ Pace

Next == Step \/ Disconnect

Spec == Init /\ [][Next]_vars

\* every browser operation and callback eventually returns
FairSpec == Spec /\ WF_vars(Step)

\* ------------------------------------------------------------------------
\* normalize_url called on its own
\* ------------------------------------------------------------------------
\* crawl_site is not running
NoCrawl ==
    /\ start_url = NoUrl
    /\ additional_paths = <<>>
    /\ max_pages = Unbounded
    /\ has_on_progress = FALSE
    /\ has_on_page = FALSE
    /\ allowed_domain = ""
    /\ allowed_prefixes_set = {}
    /\ queue = <<>>
    /\ visited = {}
    /\ scraped_data = <<>>
    /\ browser = "none"
    /\ pc = "done"
    /\ normalized_url = NoUrl
    /\ context = "none"
    /\ content_data = NoContent
    /\ page_payload = <<>>
    /\ new_links_found = 0
    /\ returned = <<>>
    /\ initial_ok = FALSE
    /\ pops = 0
    /\ fetched = <<>>
    /\ progressed = <<>>
    /\ delivered = <<>>
    /\ conn_skipped = {}
    /\ goto_failed = {}
    /\ rejected = {}
    /\ last_error = "none"
    /\ enqueued = {}
    /\ links_done = {}
    /\ paced_pop = FALSE
    /\ progress_raised = FALSE
    /\ open_contexts = 0
    /\ paced_goto = FALSE

crawl == <<inputs, scope, queue, visited, scraped_data, browser, pc,
           normalized_url, context, content_data, page_payload,
           new_links_found, returned, observed, last_error, traced>>

\* all sequences over a set of symbols, up to a length
RECURSIVE SeqsUpTo(_, _)
SeqsUpTo(symbols, n) ==
    IF n = 0 THEN {<<>>}
    ELSE LET shorter == SeqsUpTo(symbols, n - 1)
         IN  shorter \cup {Append(t, c) : t \in shorter, c \in symbols}

\* the URL texts tried: scheme://host, a path, a query, a fragment
UrlTexts ==
    { scheme \o <<":", "/", "/">> \o host \o path \o query \o fragment :
         scheme \in {<<"https">>, <<"HTTPS">>},
         host \in {<<"docs">>, <<"DOCS">>},
         path \in SeqsUpTo({"/", "guide", ";"}, MaxPathLen),
         query \in {<<>>, <<"?", "q">>},
         fragment \in {<<>>, <<"#", "top">>} }

NormalizeInit ==
    /\ NoCrawl
    /\ NoIngest
    /\ arg_url \in {<<t>> : t \in UrlTexts}
    /\ res_once = <<>>
    /\ res_twice = <<>>
    /\ arg_text = <<>>
    /\ arg_max_chars = 0
    /\ arg_overlap = 0
    /\ res_chunks = <<>>

\* normalize_url(u)
NormalizeOnce ==
    /\ arg_url # <<>>
    /\ res_once = <<>>
    /\ res_once' = <<normalize_url_text(arg_url[1])>>
    /\ UNCHANGED <<crawl, ingest, arg_url, res_twice, arg_text, arg_max_chars,
                   arg_overlap, res_chunks>>

\* normalize_url(normalize_url(u))
NormalizeTwice ==
    /\ res_once # <<>>
    /\ res_twice = <<>>
    /\ res_twice' = <<normalize_url_text(res_once[1])>>
    /\ UNCHANGED <<crawl, ingest, arg_url, res_once, arg_text, arg_max_chars,
                   arg_overlap, res_chunks>>

NormalizeNext == NormalizeOnce \/ NormalizeTwice

NormalizeSpec == NormalizeInit /\ [][NormalizeNext]_vars

\* ------------------------------------------------------------------------
\* chunk_text called on its own.  A text is a sequence of characters, " "
\* standing for any whitespace; a chunk is kept as the span [lo, hi] of the
\* positions of the text it is made of (1-based, both ends included)
\* ------------------------------------------------------------------------
Min(a, b) == IF a <= b THEN a ELSE b

Span(lo, hi) == [lo |-> lo, hi |-> hi]

\* str.isspace() of text[from:] (0-based from): false for the empty string
IsSpaceFrom(txt, from) ==
    from < Len(txt) /\ \A i \in (from + 1)..Len(txt) : txt[i] = " "

\* chunk.strip() for the chunk at a span: the span from its first to its
\* last non-whitespace character, an empty span when there is none
Strip(txt, w) ==
    LET keep == {i \in w.lo..w.hi : txt[i] # " "}
    IN  IF keep = {} THEN Span(w.lo, w.lo - 1)
        ELSE Span(CHOOSE i \in keep : \A j \in keep : i <= j,
                  CHOOSE i \in keep : \A j \in keep : j <= i)

\* the while loop with start += max_chars + overlap
RECURSIVE WindowsSignSlip(_, _, _, _)
WindowsSignSlip(txt, max, ov, start) ==
    IF start < Len(txt)
    THEN <<Span(start + 1, Min(start + max, Len(txt)))>>
         \o WindowsSignSlip(txt, max, ov, start + max + ov)
    ELSE <<>>

\* lines 24-29, the while loop: the spans of text[start:end] appended from
\* offset start on (0-based, as in the code)
RECURSIVE Windows(_, _, _, _)
Windows(txt, max, ov, start) ==
    IF start < Len(txt)
    THEN <<Span(start + 1, Min(start + max, Len(txt)))>>
         \o (IF start + (max - ov) >= Len(txt) THEN <<>>
             ELSE Windows(txt, max, ov, start + (max - ov)))
    ELSE <<>>

\* the value of start when the while loop is left
RECURSIVE FinalStart(_, _, _, _)
FinalStart(txt, max, ov, start) ==
    IF start < Len(txt) /\ start + (max - ov) < Len(txt)
    THEN FinalStart(txt, max, ov, start + (max - ov))
    ELSE IF start < Len(txt) THEN start + (max - ov) ELSE start

\* lines 30-32: the chunk appended after the loop
TailWindow(txt, max, ov) ==
    LET start == FinalStart(txt, max, ov, 0)
    IN  IF /\ start < Len(txt)
           /\ ~IsSpaceFrom(txt, start)
           /\ Len(txt) - (start - (max - ov)) > max
        THEN <<Span(start + 1, Len(txt))>>
        ELSE <<>>

\* line 33: the stripped chunks that are not empty
ChunkSpans(txt, max, ov) ==
    LET chunks   == Windows(txt, max, ov, 0) \o TailWindow(txt, max, ov)
        stripped == [k \in DOMAIN chunks |-> Strip(txt, chunks[k])]
        NotEmpty(w) == w.lo <= w.hi
    IN  IF txt = <<>> THEN <<>> ELSE SelectSeq(stripped, NotEmpty)

\* chunk_text
chunk_text(txt, max, ov) ==
    LET spans == ChunkSpans(txt, max, ov)
    IN  [k \in DOMAIN spans |-> SubSeq(txt, spans[k].lo, spans[k].hi)]

ChunkInit ==
    /\ NoCrawl
    /\ NoIngest
    /\ arg_url = <<>>
    /\ res_once = <<>>
    /\ res_twice = <<>>
    /\ arg_text \in {<<t>> : t \in SeqsUpTo({"a", "b", " "}, MaxTextLen)}
    /\ arg_max_chars \in 1..MaxChunkChars
    /\ arg_overlap \in 0..(arg_max_chars - 1)
    /\ res_chunks = <<>>

\* chunk_text(text, max_chars, overlap)
ChunkText ==
    /\ arg_text # <<>>
    /\ res_chunks = <<>>
    /\ res_chunks' = <<chunk_text(arg_text[1], arg_max_chars, arg_overlap)>>
    /\ UNCHANGED <<crawl, ingest, arg_url, res_once, res_twice, arg_text,
                   arg_max_chars, arg_overlap>>

ChunkNext == ChunkText

ChunkSpec == ChunkInit /\ [][ChunkNext]_vars

\* ------------------------------------------------------------------------
\* The ingestion worker: poll_loop and process_job of main.py, with the
\* import_jobs table of db.py
\* ------------------------------------------------------------------------
\* ids of the rows of import_jobs, in the order of created_at
JobIds == 1..MaxJobs

\* the poll_loop processes running against the same database
Workers == {1, 2}

\* resolve_embedding_model: the model name, or "raise" for the RuntimeError
\* of line 47; dim = 0 stands for None
resolve_embedding_model(dim) ==
    IF dim # 0 /\ dim # EMBEDDING_DIMENSION THEN "raise" ELSE EMBEDDING_MODEL

\* db.fetch_next_job: the id of the oldest row with status 'queued', 0 for
\* no row
fetch_next_job(table) ==
    IF \E j \in DOMAIN table : table[j].status = "queued"
    THEN CHOOSE j \in DOMAIN table :
            /\ table[j].status = "queued"
            /\ \A k \in DOMAIN table : table[k].status = "queued" => j <= k
    ELSE 0

\* db.update_job(conn, job_id, status=...): UPDATE ... WHERE id = job_id,
\* then commit
update_job(table, job_id, status) ==
    [table EXCEPT ![job_id].status = status]

\* the state of one poll_loop
Loop(at, job, pages_seen) == [pc |-> at, job |-> job, pages_seen |-> pages_seen]

\* the except clause of line 206 and the sleep of line 209: whatever leaves
\* the with block is logged, and the loop waits for its next round
PollingError(w) == loops' = [loops EXCEPT ![w].pc = "sleep"]

WorkerInit ==
    /\ NoCrawl
    /\ NoPureCall
    /\ import_jobs \in [JobIds -> {[status |-> "queued", source |-> src] :
                                      src \in {"", "url"}}]
    /\ db_dim \in {0, 1536, EMBEDDING_DIMENSION}
    /\ loops = [w \in Workers |-> Loop("poll", 0, 0)]
    /\ ran = [j \in JobIds |-> {}]
    /\ page_errors = {}

\* lines 198-205: get_conn and fetch_next_job; no row, or an exception of
\* either call, ends the round
FetchNextJob(w) ==
    /\ loops[w].pc = "poll"
    /\ \/ PollingError(w)
       \/ loops' = [loops EXCEPT ![w] =
                       IF fetch_next_job(import_jobs) = 0
                       THEN Loop("sleep", 0, 0)
                       ELSE Loop("start", fetch_next_job(import_jobs), 0)]
    /\ UNCHANGED <<crawl, pure, import_jobs, db_dim, ran, page_errors>>

\* lines 202, 74-85: process_job is called with the row; without a source
\* the job is marked failed, else it is marked processing; update_job may
\* raise
StartJob(w) ==
    /\ loops[w].pc = "start"
    /\ IF import_jobs[loops[w].job].source = ""
       THEN /\ \/ /\ import_jobs' =
                        update_job(import_jobs, loops[w].job, "failed")
                  /\ loops' = [loops EXCEPT ![w].pc = "sleep"]
               \/ /\ PollingError(w)
                  /\ UNCHANGED import_jobs
            /\ UNCHANGED ran
       ELSE \/ /\ import_jobs' =
                     update_job(import_jobs, loops[w].job, "processing")
               /\ ran' = [ran EXCEPT ![loops[w].job] = @ \cup {w}]
               /\ loops' = [loops EXCEPT ![w].pc = "resolve"]
            \/ /\ PollingError(w)
               /\ UNCHANGED <<import_jobs, ran>>
    /\ UNCHANGED <<crawl, pure, db_dim, page_errors>>

\* lines 87-94: get_embedding_dimension and resolve_embedding_model, called
\* before the try of line 157: the RuntimeError leaves process_job
Resolve(w) ==
    /\ loops[w].pc = "resolve"
    /\ IF resolve_embedding_model(db_dim) = "raise"
       THEN PollingError(w)
       ELSE loops' = [loops EXCEPT ![w].pc = "crawl"]
    /\ UNCHANGED <<crawl, pure, import_jobs, db_dim, ran, page_errors>>

\* lines 96-155, called from crawl_site at line 246 of crawler.py: one page
\* is chunked, embedded and stored, or handle_page raises; what becomes of
\* the exception is decided by the except clauses of crawl_site
HandlePage(w) ==
    /\ loops[w].pc = "crawl"
    /\ loops[w].pages_seen < MaxJobPages
    /\ \/ /\ loops' = [loops EXCEPT ![w].pages_seen = @ + 1]
          /\ UNCHANGED page_errors
       \/ /\ page_errors' = page_errors \cup {loops[w].job}
          /\ loops' = [loops EXCEPT
                          ![w].pages_seen = @ + 1,
                          ![w].pc = IF Handler("on_page", "live").pc = "finally"
                                    THEN "crawl" ELSE "fail"]
    /\ UNCHANGED <<crawl, pure, import_jobs, db_dim, ran>>

\* line 158: crawl_site returns
CrawlReturns(w) ==
    /\ loops[w].pc = "crawl"
    /\ loops' = [loops EXCEPT ![w].pc = "complete"]
    /\ UNCHANGED <<crawl, pure, import_jobs, db_dim, ran, page_errors>>

\* line 158: crawl_site raises outside its per-page try statement (the
\* async_playwright() of line 152 of crawler.py fails to start)
CrawlRaises(w) ==
    /\ loops[w].pc = "crawl"
    /\ loops[w].pages_seen = 0
    /\ loops' = [loops EXCEPT ![w].pc = "fail"]
    /\ UNCHANGED <<crawl, pure, import_jobs, db_dim, ran, page_errors>>

\* lines 165-175: the job is marked failed; update_job may raise
MarkFailed(w) ==
    /\ loops[w].pc = "fail"
    /\ \/ import_jobs' = update_job(import_jobs, loops[w].job, "failed")
       \/ UNCHANGED import_jobs
    /\ loops' = [loops EXCEPT ![w].pc = "sleep"]
    /\ UNCHANGED <<crawl, pure, db_dim, ran, page_errors>>

\* lines 177-187: the job is marked completed; update_job may raise
MarkCompleted(w) ==
    /\ loops[w].pc = "complete"
    /\ \/ import_jobs' = update_job(import_jobs, loops[w].job, "completed")
       \/ UNCHANGED import_jobs
    /\ loops' = [loops EXCEPT ![w].pc = "sleep"]
    /\ UNCHANGED <<crawl, pure, db_dim, ran, page_errors>>

\* line 209: the round ends, the next one starts
Sleep(w) ==
    /\ loops[w].pc = "sleep"
    /\ loops' = [loops EXCEPT ![w] = Loop("poll", 0, 0)]
    /\ UNCHANGED <<crawl, pure, import_jobs, db_dim, ran, page_errors>>

poll_loop(w) ==
    \/ FetchNextJob(w)
    \/ StartJob(w)
    \/ Resolve(w)
    \/ HandlePage(w)
    \/ CrawlReturns(w)
    \/ CrawlRaises(w)
    \/ MarkFailed(w)
    \/ MarkCompleted(w)
    \/ Sleep(w)

WorkerNext == \E w \in Workers : poll_loop(w)

WorkerSpec == WorkerInit /\ [][WorkerNext]_vars

\* every poll_loop keeps running: each await and each database call returns
FairWorkerSpec == WorkerSpec /\ \A w \in Workers : WF_vars(poll_loop(w))

TypeOK ==
    /\ pc \in {"connect0", "loop", "progress", "connect", "backoff",
               "new_context", "goto", "extract", "links", "on_page",
               "finally", "finally_raise", "pace", "done", "raised"}
    /\ browser \in {"none", "live", "dead"}
    /\ context \in {"none", "open", "closed"}
    /\ Len(page_payload) <= 1

\* ------------------------------------------------------------------------
\* Properties
\* ------------------------------------------------------------------------
NoDuplicates(s) == \A i, j \in DOMAIN s : i # j => s[i] # s[j]

\* the scope rules, stated on the components of a URL
Admissible(u) ==
    /\ u.netloc = allowed_domain
    /\ \E p \in allowed_prefixes_set :
          Len(p) <= Len(u.path) /\ \A i \in DOMAIN p : u.path[i] = p[i]
    /\ u.fragment = ""
    /\ \E lowered \in {LowerSeq(u.path)} :
          \A k \in DOMAIN skip_patterns : ~ReSearch(skip_patterns[k], lowered)

\* the loop has nothing left to do: the queue is empty or the cap is reached
Exhausted ==
    \/ queue = <<>>
    \/ max_pages # Unbounded /\ Len(scraped_data) >= max_pages

\* C1: no URL is passed to page.goto twice, and the number of distinct URLs
\* fetched never exceeds the number of queue pops, also after a failed fetch
\* of a URL that a later page links to again.
C1_FetchedAtMostOnce ==
    /\ NoDuplicates(fetched)
    /\ Cardinality(Range(fetched)) <= pops

\* a page whose goto failed is linked from the page whose links have just
\* been enumerated
C1_Witness ==
    /\ pc = "on_page"
    /\ \E u \in goto_failed :
          /\ u # normalized_url
          /\ \E i \in DOMAIN LinksOf(normalized_url) :
                normalize_url(LinksOf(normalized_url)[i]) = u

\* C2: with a positive max_pages nothing is popped once len(scraped_data) has
\* reached max_pages; the result never holds more than max_pages records, and
\* a run that stops with entries left in the queue returns exactly max_pages.
C2_PageCap ==
    /\ [](max_pages > 0 =>
            /\ Len(scraped_data) <= max_pages
            /\ (pc = "done" /\ initial_ok) =>
                  /\ returned = <<scraped_data>>
                  /\ queue # <<>> => Len(returned[1]) = max_pages)
    /\ [][(max_pages > 0 /\ pops' > pops) => Len(scraped_data) < max_pages]_vars

\* seeds guide and guide/faq, max_pages = 2: two records, queue not empty
C2_Witness ==
    /\ pc = "done"
    /\ start_url = Guide
    /\ additional_paths = << <<"/", "guide", "/", "faq">> >>
    /\ max_pages = 2
    /\ returned # <<>>
    /\ Len(returned[1]) = 2
    /\ queue # <<>>

\* C3: every record of scraped_data has content that is non-empty, free of
\* the JavaScript marker and longer than 100; a page that failed the check
\* has no record and is not fetched again.
C3_QualityGate ==
    /\ \A i \in DOMAIN scraped_data :
          /\ scraped_data[i].content.len > 0
          /\ scraped_data[i].content.js = FALSE
          /\ scraped_data[i].content.len > MinContentLen
    /\ \A u \in rejected :
          /\ \A i \in DOMAIN scraped_data : scraped_data[i].url # u
          /\ Cardinality({i \in DOMAIN fetched : fetched[i] = u}) = 1
    /\ pc = "done" /\ initial_ok => returned = <<scraped_data>>

C3_Witness ==
    /\ pc = "done"
    /\ rejected # {}
    /\ returned # <<>>
    /\ Len(returned[1]) >= 1

\* C4: with on_page registered, it is invoked exactly once for each page that
\* passed the quality check and never while a page that failed it is
\* processed.
C4_OnPageOncePerAcceptedPage ==
    has_on_page =>
        /\ \A i \in DOMAIN delivered :
              /\ delivered[i].content.len > MinContentLen
              /\ ~delivered[i].content.js
        /\ pc \in {"finally", "pace", "loop", "done"} =>
              \A k \in DOMAIN scraped_data :
                 Cardinality({i \in DOMAIN delivered :
                                 delivered[i].during = scraped_data[k].url}) = 1

\* C5: the record passed to on_page while u is processed is the record of u
\* built in that iteration; no record is delivered twice, and the delivered
\* records are the returned sequence.
C5_DeliveredIsReturned ==
    has_on_page =>
        /\ \A i \in DOMAIN delivered :
              delivered[i].record.url = delivered[i].during
        /\ NoDuplicates([i \in DOMAIN delivered |-> delivered[i].record])
        /\ (pc = "done" /\ initial_ok) =>
              returned = << [i \in DOMAIN delivered |-> delivered[i].record] >>

\* C6: every URL that link discovery appends to the queue is in scope when it
\* is appended, and the scope configuration never changes.
C6_ScopeClosure ==
    [][ /\ Len(queue') > Len(queue) =>
             \A i \in (Len(queue) + 1)..Len(queue') : Admissible(queue'[i])
        /\ allowed_domain' = allowed_domain
        /\ allowed_prefixes_set' = allowed_prefixes_set ]_vars

\* the page with off-site, denylisted and fragment links has had its links
\* enumerated and some were taken
C6_Witness ==
    /\ pc = "on_page"
    /\ normalized_url = Guide
    /\ new_links_found >= 1
    /\ Len(LinksOf(Guide)) > new_links_found

\* C7: a popped URL that fails the scope filter is marked visited and the
\* iteration ends there; every URL for which a connect, a context or a fetch
\* happens is in scope, seeds from additional_paths included.
C7_OutOfScopeNeverFetched ==
    /\ [](/\ \A i \in DOMAIN fetched : Admissible(fetched[i])
          /\ pc \in {"progress", "connect", "backoff", "new_context", "goto",
                     "extract", "links", "on_page"} => Admissible(normalized_url))
    /\ [][(pops' > pops /\ ~Admissible(normalized_url')) =>
             /\ normalized_url' \in visited'
             /\ pc' = "loop"
             /\ UNCHANGED <<browser, context, fetched>>]_vars

\* the seed built from the relative additional path "tips" was popped and
\* skipped, and pages were fetched
C7_Witness ==
    /\ pc = "done"
    /\ Doc(<<"/", "tips">>) \in visited
    /\ fetched # <<>>

C9_OnlyInitialConnectIsFatal ==
    /\ (~initial_ok /\ pc # "connect0") =>
          /\ pc = "done"
          /\ returned = << <<>> >>
          /\ pops = 0
          /\ fetched = <<>>
          /\ progressed = <<>>
          /\ delivered = <<>>
    /\ (initial_ok /\ conn_skipped # {} /\ pc = "done") => Exhausted

\* a URL was skipped for want of a connection and a later page was scraped
C9_Witness ==
    /\ pc = "done"
    /\ initial_ok
    /\ conn_skipped # {}
    /\ \E i \in DOMAIN scraped_data : scraped_data[i].url \notin conn_skipped

\* C10: crawl_site terminates, and after a successful initial connect it
\* returns only when the queue is empty or the page cap is reached.
C10_Terminates ==
    /\ <>(pc = "done")
    /\ [](pc = "done" /\ initial_ok =>
             \/ queue = <<>>
             \/ max_pages > 0 /\ Len(scraped_data) >= max_pages)

\* the whole site was crawled and the run ended with an empty queue
C10_Witness ==
    /\ pc = "done"
    /\ initial_ok
    /\ queue = <<>>
    /\ {Guide, GuideFaq, GuideTips} \subseteq Range(fetched)

\* every popped URL that passed the scope filter had its links enumerated:
\* a connection was there for it and no page operation failed
NoPageFailure == \A v \in visited : Admissible(v) => v \in links_done

\* C11: with max_pages = -1 crawl_site returns only with an empty queue;
\* every URL ever placed in the queue then has its normalized form in
\* visited; and when no connection or page operation failed, every in-scope
\* link target of a fetched page has been fetched.
C11_UnboundedCrawl ==
    (pc = "done" /\ initial_ok /\ max_pages = Unbounded) =>
       /\ queue = <<>>
       /\ \A u \in enqueued : normalize_url(u) \in visited
       /\ NoPageFailure =>
             \A u \in Range(fetched) : \A k \in DOMAIN LinksOf(u) :
                LET target == normalize_url(UrlJoin(u, LinksOf(u)[k]))
                IN  Admissible(target) => target \in Range(fetched)

\* an unbounded crawl without failures has returned after fetching the three
\* pages of the site, two of them found by link discovery
C11_Witness ==
    /\ pc = "done"
    /\ initial_ok
    /\ max_pages = Unbounded
    /\ NoPageFailure
    /\ additional_paths = <<>>
    /\ Range(fetched) = {Guide, GuideFaq, GuideTips}
    /\ enqueued = {start_url, GuideFaq, GuideTips}
    /\ start_url # normalize_url(start_url)

\* C12: normalize_url is idempotent: applying it to its own result gives
\* that result again.
C12_NormalizeIdempotent ==
    res_twice # <<>> => res_twice = res_once

\* the spans of the chunks returned by the call, and the returned chunks
ReturnedSpans == ChunkSpans(arg_text[1], arg_max_chars, arg_overlap)
ReturnedChunks == res_chunks[1]

\* C13: consecutive chunks returned by chunk_text share exactly overlap
\* characters: the last overlap characters of chunk i are the first overlap
\* characters of chunk i+1, and they are the same characters of the text.
C13_ConsecutiveChunksOverlap ==
    res_chunks # <<>> =>
       \A i \in 1..(Len(ReturnedChunks) - 1) :
          LET c == ReturnedChunks[i]
              d == ReturnedChunks[i + 1]
          IN  /\ Len(c) >= arg_overlap
              /\ Len(d) >= arg_overlap
              /\ SubSeq(c, Len(c) - arg_overlap + 1, Len(c))
                    = SubSeq(d, 1, arg_overlap)
              /\ Cardinality((ReturnedSpans[i].lo..ReturnedSpans[i].hi)
                        \cap (ReturnedSpans[i + 1].lo..ReturnedSpans[i + 1].hi))
                    = arg_overlap

\* position p of the text is in one of the returned chunks
Covered(p) ==
    \E k \in DOMAIN ReturnedSpans :
       /\ ReturnedSpans[k].lo <= p
       /\ p <= ReturnedSpans[k].hi
       /\ ReturnedChunks[k]
             = SubSeq(arg_text[1], ReturnedSpans[k].lo, ReturnedSpans[k].hi)

\* C14 as stated: every character position of the text is contained in at
\* least one chunk returned by chunk_text.
C14_EveryPositionCovered ==
    res_chunks # <<>> => \A p \in DOMAIN arg_text[1] : Covered(p)

\* C14: for 0 <= overlap < max_chars every position of the text that holds a
\* non-whitespace character is contained in at least one returned chunk.
C14_NonSpaceCovered ==
    res_chunks # <<>> =>
       \A p \in DOMAIN arg_text[1] : arg_text[1][p] # " " => Covered(p)

\* a text longer than max_chars was cut into overlapping chunks, and a
\* whitespace character between two of them was trimmed away
C14_Witness ==
    /\ res_chunks # <<>>
    /\ arg_overlap >= 1
    /\ Len(ReturnedChunks) >= 2
    /\ \E p \in DOMAIN arg_text[1] :
          /\ ~Covered(p)
          /\ \E a, b \in DOMAIN arg_text[1] : a < p /\ p < b /\ Covered(a) /\ Covered(b)

\* C15: the normalized form of a popped URL is in visited from the pop on:
\* when the scope filter has rejected it, and while on_progress, a connect
\* attempt or a fetch happens for it; visited never loses an element.
C15_VisitedFromThePop ==
    /\ [](/\ pc \in {"progress", "connect", "backoff", "new_context", "goto",
                      "extract", "links", "on_page"} => normalized_url \in visited
          /\ Range(progressed) \subseteq visited
          /\ Range(fetched) \subseteq visited
          /\ conn_skipped \subseteq visited)
    /\ [][ /\ visited \subseteq visited'
           /\ pops' > pops => normalized_url' \in visited' ]_vars

\* a page is about to be fetched after on_progress was called for it, and
\* an earlier pop was rejected by the scope filter
C15_Witness ==
    /\ pc = "goto"
    /\ has_on_progress
    /\ progressed # <<>>
    /\ progressed[Len(progressed)] = normalized_url
    /\ normalized_url \in visited
    /\ \E v \in visited : ~Admissible(v)

\* C16: link discovery appends a link only if its normalized form is neither
\* in visited nor the normalized form of an entry already in the queue, and
\* at every point no two queue entries, seeds included, normalize to the
\* same URL.
C16_NoDoubleEnqueue ==
    /\ [][Len(queue') > Len(queue) =>
             \A j \in (Len(queue) + 1)..Len(queue') :
                /\ normalize_url(queue'[j]) \notin visited
                /\ \A i \in 1..(j - 1) :
                      normalize_url(queue'[i]) # normalize_url(queue'[j])]_vars
    /\ [](\A i, j \in DOMAIN queue :
             i # j => normalize_url(queue[i]) # normalize_url(queue[j]))

C18_PacedBetweenPops ==
    [][(pops' > pops /\ pops > 0) => paced_pop]_vars

\* C18: between any two consecutive calls of page.goto the 1-second pacing
\* delay has been applied, however the iteration of the earlier call ended.
C18_PacedBetweenFetches ==
    [][(Len(fetched') > Len(fetched) /\ fetched # <<>>) => paced_goto]_vars

\* a page is fetched after an earlier fetch failed and after a pop that
\* ended in a skip
C18_Witness ==
    /\ pc = "extract"
    /\ Len(fetched) >= 2
    /\ goto_failed # {}
    /\ pops > Len(fetched)
    /\ ~paced_goto

\* C19 as stated: with on_progress registered, it is invoked for every
\* popped URL that was not already visited, before the scope filter, hence
\* also for the URLs that the scope filter rejects.
C19_ProgressForEveryNewUrl ==
    (has_on_progress /\ pc # "progress") => visited \subseteq Range(progressed)

\* C19: with on_progress registered, it is invoked once with the normalized
\* URL for every popped URL that was not already visited and that passes
\* the scope filter, after the insertion into visited; it is not invoked for
\* a URL that the scope filter rejects, nor when it is not registered.
C19_ProgressForEveryAdmittedUrl ==
    /\ has_on_progress =>
          \A v \in visited :
             Admissible(v) <=> \/ v \in Range(progressed)
                               \/ pc = "progress" /\ v = normalized_url
    /\ Range(progressed) \subseteq visited
    /\ NoDuplicates(progressed)
    /\ ~has_on_progress => progressed = <<>>

\* on_progress was called for a URL in scope, and a URL that the scope filter
\* rejected is in visited without a call
C19_Witness ==
    /\ has_on_progress
    /\ pc = "connect"
    /\ progressed # <<>>
    /\ \E v \in visited : ~Admissible(v) /\ v \notin Range(progressed)

\* C20: an exception raised by on_progress is swallowed: whether the
\* callback returns or raises, crawl_site goes on to the connect for the
\* same URL with queue, visited and scraped_data as they were, and the URL
\* is then fetched and extracted as any other.
C20_ProgressFailureSwallowed ==
    /\ [][(pc = "progress" /\ pc' # "progress") =>
             /\ pc' = "connect"
             /\ UNCHANGED <<queue, visited, scraped_data, browser,
                            normalized_url, last_error, fetched>>]_vars
    /\ [](progress_raised =>
             /\ pc # "raised"
             /\ progressed # <<>>
             /\ progressed[Len(progressed)] = normalized_url)

\* on_progress raised for a URL whose page was then fetched, extracted and
\* accepted
C20_Witness ==
    /\ progress_raised
    /\ pc = "links"
    /\ fetched[Len(fetched)] = normalized_url
    /\ scraped_data # <<>>
    /\ scraped_data[Len(scraped_data)].url = normalized_url

\* C21: a failed connect for a URL is followed by exactly one more attempt
\* after the back-off; when that fails too the URL is skipped with no context
\* and no fetch, it stays in visited and is never fetched, and the loop goes
\* on with the next queue entry.  A context is created only on a live
\* connection obtained at line 196 or 200.
C21_AtMostTwoConnects ==
    /\ [][ /\ (pc' = "backoff" /\ pc # "backoff") =>
                 /\ pc = "connect"
                 /\ browser # "live"
                 /\ browser' = "none"
           /\ (pc = "backoff" /\ pc' # "backoff") =>
                 \/ /\ pc' = "new_context"
                    /\ browser' = "live"
                    /\ UNCHANGED conn_skipped
                 \/ /\ pc' = "loop"
                    /\ browser' = "none"
                    /\ conn_skipped' = conn_skipped \cup {normalized_url}
                    /\ context' = "none"
                    /\ UNCHANGED <<queue, visited, fetched, scraped_data,
                                   open_contexts>>
           /\ (pc' = "new_context" /\ pc # "new_context") =>
                 /\ pc \in {"connect", "backoff"}
                 /\ browser' = "live" ]_vars
    /\ [](\A u \in conn_skipped : u \in visited /\ u \notin Range(fetched))

\* a URL was skipped after two failed connects, and the page of the next
\* in-scope entry has been fetched
C21_Witness ==
    /\ pc = "extract"
    /\ conn_skipped # {}
    /\ normalized_url \notin conn_skipped
    /\ fetched = <<normalized_url>>

\* C22: a browser-crash error while a URL is processed clears the browser
\* handle and ends that iteration through the finally clause with queue and
\* visited as they were; the URL stays in visited and only URLs outside
\* visited are processed; a cleared handle is set again only by a connect,
\* so the connect of the next in-scope URL is a fresh one and comes before
\* its context; with a live connection line 196 connects nothing and cannot
\* fail.
C22_CrashRecovery ==
    /\ [][ /\ (last_error' = "crash" /\ last_error # "crash") =>
                 /\ browser' = "none"
                 /\ pc' = "finally"
                 /\ normalized_url \in visited
                 /\ UNCHANGED <<queue, visited, normalized_url>>
           /\ visited \subseteq visited'
           /\ (pc = "loop" /\ pc' = "progress") => normalized_url' \notin visited
           /\ (browser = "none" /\ browser' # "none") =>
                 /\ pc \in {"connect0", "connect", "backoff"}
                 /\ browser' = "live"
           /\ (pc = "connect" /\ pc' # "connect") =>
                 IF browser = "live"
                 THEN browser' = "live" /\ pc' = "new_context"
                 ELSE \/ browser' = "live" /\ pc' = "new_context"
                      \/ browser' = "none" /\ pc' = "backoff" ]_vars
    /\ []((last_error = "crash" /\ pc \in {"finally", "pace", "loop"}) =>
             browser = "none")

\* after a crash cleared the handle, the next in-scope URL has been popped
\* and line 196 is about to connect afresh
C22_Witness ==
    /\ pc = "connect"
    /\ browser = "none"
    /\ initial_ok
    /\ conn_skipped = {}
    /\ pops >= 2

\* C23: a PlaywrightError without the closed-target text, or another
\* exception of a page operation, never leaves crawl_site, and the URL it was
\* raised for has no record in scraped_data, hence none in the returned
\* sequence.
C23_FailedPageYieldsNothing ==
    /\ pc # "raised"
    /\ (last_error \in {"playwright", "other"}
           /\ pc \in {"finally", "pace", "loop", "done"}) =>
          /\ \A i \in DOMAIN scraped_data :
                scraped_data[i].url # normalized_url
          /\ returned # <<>> =>
                \A i \in DOMAIN returned[1] : returned[1][i].url # normalized_url

\* C23 as amended: a page operation that raises anything but the browser
\* crash error never ends crawl_site, and changes neither scraped_data nor
\* the queue; raised by new_context, page.goto, page.content or the
\* extraction, it leaves the URL without a record; raised while the links
\* are enumerated, it leaves the record of an accepted page in scraped_data.
C23_FailureBeforeCheckYieldsNothing ==
    /\ [][ (last_error = "none" /\ last_error' \in {"playwright", "other"}) =>
              /\ pc' = "finally"
              /\ UNCHANGED <<scraped_data, queue, visited, browser>>
              /\ pc \in {"new_context", "goto", "extract", "links"}
              /\ pc # "links" =>
                    \A i \in DOMAIN scraped_data :
                       scraped_data[i].url # normalized_url
              /\ pc = "links" =>
                    (PassesCheck(content_data) <=>
                        \E i \in DOMAIN scraped_data :
                           scraped_data[i].url = normalized_url) ]_vars
    /\ [](/\ pc # "raised"
          /\ (last_error \in {"playwright", "other"} /\ pc = "done") =>
                 (Exhausted /\ returned = <<scraped_data>>))

\* page.goto raised a timeout for a URL; the URL has no record, a record of
\* an earlier page is kept, and the loop is about to pop the next entry
C23_Witness ==
    /\ last_error = "playwright"
    /\ pc = "loop"
    /\ normalized_url \in goto_failed
    /\ scraped_data # <<>>
    /\ \A i \in DOMAIN scraped_data : scraped_data[i].url # normalized_url
    /\ LoopCond(queue, Len(scraped_data), max_pages)

\* position of the first occurrence of x in s
FirstIndex(s, x) ==
    CHOOSE k \in DOMAIN s : s[k] = x /\ \A m \in 1..(k - 1) : s[m] # x

\* the link targets of the page of u, resolved and normalized, in document
\* order
TargetsOf(u) ==
    [k \in DOMAIN LinksOf(u) |-> normalize_url(UrlJoin(u, LinksOf(u)[k]))]

\* C24: before the first pop the queue is the start URL followed by the
\* same-host URLs built from additional_paths, in the given order; a pop
\* removes the head and nothing else; the only other change of the queue
\* is link discovery appending at the tail, targets in document order.
C24_FifoFrontier ==
    /\ [](pops = 0 =>
             /\ queue # <<>>
             /\ Head(queue) = start_url
             /\ LET joined == [i \in DOMAIN additional_paths |->
                                  UrlJoinRef(start_url, additional_paths[i])]
                    SameHost(u) == u.netloc = start_url.netloc
                IN  Tail(queue) = SelectSeq(joined, SameHost))
    /\ [][ /\ pops' # pops =>
                 /\ pops' = pops + 1
                 /\ queue # <<>>
                 /\ queue' = Tail(queue)
                 /\ normalized_url' = normalize_url(Head(queue))
           /\ (pops' = pops /\ queue' # queue) =>
                 /\ pc = "links"
                 /\ Len(queue') > Len(queue)
                 /\ SubSeq(queue', 1, Len(queue)) = queue
                 /\ \A i \in (Len(queue) + 1)..Len(queue') :
                       /\ queue'[i] \in Range(TargetsOf(normalized_url))
                       /\ \A j \in (i + 1)..Len(queue') :
                             FirstIndex(TargetsOf(normalized_url), queue'[i])
                                < FirstIndex(TargetsOf(normalized_url), queue'[j])
         ]_vars

\* all seeds of a crawl with several additional paths were popped, and an
\* entry appended by link discovery has been popped after them
C24_Witness ==
    /\ Len(additional_paths) > 1
    /\ pops > Len(SeedQueue(start_url, additional_paths))
    /\ pc = "progress"
    /\ normalized_url = GuideTips
    /\ Range(fetched) = {Guide, GuideFaq}

\* C25: after page.content and the extraction, the links are enumerated
\* whether or not the content passed the quality check; the enumeration
\* appends the in-scope link targets that were neither visited nor queued,
\* so that afterwards every in-scope target of the page, accepted or
\* rejected, is in visited or in the queue.
C25_LinksOfRejectedPages ==
    [][ /\ (pc = "extract" /\ pc' # "extract" /\ last_error' = "none") =>
              pc' = "links"
        /\ (pc = "links" /\ pc' = "on_page") =>
              /\ normalized_url \in links_done'
              /\ \A t \in Range(TargetsOf(normalized_url)) :
                    /\ Admissible(t) => t \in visited \cup Range(queue')
                    /\ (t \notin visited /\ t \notin Range(queue)) =>
                          (Admissible(t) <=> t \in Range(queue')) ]_vars

\* the start page was rejected by the quality check, and a page reachable
\* only through its links has been fetched
C25_Witness ==
    /\ start_url = Guide
    /\ additional_paths = <<>>
    /\ Guide \in rejected
    /\ GuideFaq \in Range(fetched)

\* C26: once the first queue entry, the start URL, has been popped, its
\* normalized form passes the scope filter built from that start URL, and
\* the iteration does not end at the filter: control is back at the loop
\* condition only after a skipped connect or after the pacing delay.
C26_SeedInScope ==
    pops >= 1 =>
       /\ should_crawl_url(normalize_url(start_url), allowed_domain,
                           allowed_prefixes_set)
       /\ (pops = 1 /\ pc = "loop") => (conn_skipped # {} \/ paced_pop)

\* C27: scraped_data only grows at its end, one record at a time, and its
\* earlier records never change; after a successful initial connect
\* crawl_site returns scraped_data as it is; so the record of a page whose
\* on_page callback raised is still there at the next test of the loop
\* condition, where it counts toward max_pages, and in the returned
\* sequence.
C27_ScrapedAppendOnly ==
    /\ [][ \/ scraped_data' = scraped_data
           \/ /\ Len(scraped_data') = Len(scraped_data) + 1
              /\ SubSeq(scraped_data', 1, Len(scraped_data)) = scraped_data
              /\ scraped_data'[Len(scraped_data')].url = normalized_url ]_vars
    /\ []((pc = "done" /\ initial_ok) => returned = <<scraped_data>>)
    /\ []((last_error = "on_page" /\ pc \in {"finally", "pace", "loop", "done"}
              /\ delivered[Len(delivered)].record.url = normalized_url) =>
             \E i \in DOMAIN scraped_data : scraped_data[i].url = normalized_url)

\* with max_pages = 1, on_page raised for the only record; the loop ended on
\* the page cap with entries left in the queue, and the record was returned
C27_Witness ==
    /\ pc = "done"
    /\ last_error = "on_page"
    /\ max_pages = 1
    /\ queue # <<>>
    /\ Len(returned[1]) = 1
    /\ returned[1][1].url = normalized_url

\* C28: a job for which handle_page raised is never in status 'completed',
\* and once the poll_loop that ran it has finished the round, the job is in
\* status 'failed'.
C28_FailedPageFailsJob ==
    \A j \in page_errors :
       /\ import_jobs[j].status # "completed"
       /\ (\A w \in Workers : loops[w].job # j) =>
             import_jobs[j].status = "failed"

\* C29: a job in status 'processing' eventually has status 'completed' or
\* 'failed'.
C29_ProcessingEnds ==
    \A j \in JobIds :
       (import_jobs[j].status = "processing")
          ~> (import_jobs[j].status \in {"completed", "failed"})

\* C30: at most one poll_loop takes a job past the update to 'processing'
\* of line 85 and goes on to crawl and ingest it.
C30_OneWorkerPerJob ==
    \A j \in DOMAIN ran : Cardinality(ran[j]) <= 1

====
